---- MODULE Spec2Model ----
(***************************************************************************)
(* Model of the two notebooks of the repository.                           *)
(*                                                                         *)
(*   notebook "A"  src/Week3/Folium.ipynb : interactive map (folium)       *)
(*   notebook "B"  src/unnamed/part_000   : population by county (png)     *)
(*                                                                         *)
(* One behaviour is one run of one notebook, its code cells executed top   *)
(* to bottom; an exception raised by a cell ends the run.  The contents of *)
(* the data files are the inputs: they are chosen when a cell reads them.  *)
(* The library calls are modelled by what they compute on tables that are  *)
(* sequences of records (pandas/geopandas defaults as the calls use them). *)
(***************************************************************************)
EXTENDS Integers, Sequences, FiniteSets

\* ------------------------------------------------------------ bounds
\* rows of NI_Wards.shp
MaxWards == 2
\* rows of Counties.shp
MaxCounties == 2
\* rows of transport_data.csv
MaxTransport == 2
\* rows of Airports.csv
MaxAirports == 2

\* ------------------------------------------------------------ constants
\* crs='epsg:4326' (WGS84 lon/lat)
EPSG_WGS84 == "epsg:4326"
\* to_crs(epsg=32629) (UTM zone 29N)
EPSG_UTM29 == "epsg:32629"

\* ------------------------------------------------------------ value domains
\* a table without a spatial reference (a shapefile without .prj)
NoCRS == "NoCRS"
\* a missing attribute value (NaN / None)
NaN == "NaN"
\* a csv cell: a number, an empty cell (read as NaN) or other text
Num(v) == [kind |-> "number", val |-> v]
EmptyCell == [kind |-> "empty", val |-> 0]
BadCoord == [kind |-> "text", val |-> 0]
\* the value of a variable that has not been assigned yet
Unset == "Unset"
\* an output file that has not been written
NoFile == <<>>

WardCodes == {"W1", "W2"}
Populations == {500, 1500}
Distances == {23, 57}
\* county labels in ascending (lexicographic) order
LabelOrder == <<"Antrim", "Down">>
CountyNames == {LabelOrder[i] : i \in DOMAIN LabelOrder}
NameRank(n) == CHOOSE i \in DOMAIN LabelOrder : LabelOrder[i] = n
Lons == {Num(-6)}
Lats == {Num(54)}
AirportNames == {"BFS"}

\* The plane is a ring of cells; a geometry is the set of cells it covers,
\* numbered in the coordinates of the table's reference system.
Cells == {0, 1}
NumCells == Cardinality(Cells)
\* the reference systems a shapefile on disk may carry
FileCRS == {EPSG_WGS84, EPSG_UTM29, NoCRS}

SeqsUpTo(S, n) == UNION {[1..k -> S] : k \in 0..n}

\* ------------------------------------------------------------ state
VARIABLES
    notebook,              \* which notebook this run executes
    pc,                    \* the cell about to run
    err,                   \* the cell whose exception ended the run, or "none"
    ran,                   \* the cells executed so far, in order (history)
    wards,                 \* wards              (A and B)
    counties,              \* counties           (B)
    wards_county,          \* wards_county       (B)
    population_by_county,  \* population_by_county (B)
    max_county,            \* max_county         (B)
    min_county,            \* min_county         (B)
    stdout,                \* lines printed      (B)
    ax,                    \* artists drawn on the figure's axes (B)
    png,                   \* population_map.png (B)
    df,                    \* df                 (A)
    airports,              \* airports           (A)
    transport,             \* transport          (A)
    merged,                \* merged             (A)
    m,                     \* the folium map m   (A)
    html                   \* NI_Transport.html  (A)

vars == <<notebook, pc, err, ran, wards, counties, wards_county,
          population_by_county, max_county, min_county, stdout, ax, png,
          df, airports, transport, merged, m, html>>

varsA == <<df, airports, transport, merged, m, html>>
varsB == <<counties, wards_county, population_by_county, max_county,
           min_county, stdout, ax, png>>

\* ------------------------------------------------------------ run control
\* The cells of each notebook that change its state, in document order.
\* notebook A with the save cell moved up, before the airports are read
CellsA_save_early == <<"read_wards", "explore_population", "save",
                       "build_airports", "explore_airports", "read_transport",
                       "merge", "explore_distance">>
CellsA == <<"read_wards", "explore_population", "build_airports",
            "explore_airports", "read_transport", "merge",
            "explore_distance", "save">>
\* notebook B with the savefig cell moved up, before the figure is drawn
CellsB_savefig_before_plot ==
    <<"read_files", "to_crs", "sjoin", "groupby", "idxmaxmin",
      "print_report", "savefig", "plot", "print_saved">>
CellsB == <<"read_files", "to_crs", "sjoin", "groupby", "idxmaxmin",
            "print_report", "plot", "savefig", "print_saved">>
CellsOf(nb) == IF nb = "A" THEN CellsA ELSE CellsB
Position(nb, c) == CHOOSE i \in DOMAIN CellsOf(nb) : CellsOf(nb)[i] = c
\* the cell after c, "done" after the last one
NextCell(nb, c) ==
    IF Position(nb, c) = Len(CellsOf(nb)) THEN "done"
    ELSE CellsOf(nb)[Position(nb, c) + 1]

\* the components a cell calls, in the order it calls them
StagesOfCell(c) ==
    CASE c = "read_wards"         -> <<"load">>
      [] c = "explore_population" -> <<"render">>
      [] c = "build_airports"     -> <<"load", "build geometry">>
      [] c = "explore_airports"   -> <<"render">>
      [] c = "read_transport"     -> <<"load">>
      [] c = "merge"              -> <<"attribute join">>
      [] c = "explore_distance"   -> <<"render">>
      [] c = "save"               -> <<"export">>
      [] c = "read_files"         -> <<"load">>
      [] c = "to_crs"             -> <<"reproject">>
      [] c = "sjoin"              -> <<"spatial join">>
      [] c = "groupby"            -> <<"aggregate">>
      [] c = "idxmaxmin"          -> <<"min/max report">>
      [] c = "print_report"       -> <<"min/max report">>
      [] c = "plot"               -> <<"render">>
      [] c = "savefig"            -> <<"save">>
      [] c = "print_saved"        -> <<"save">>

\* the run is at cell c of notebook nb and no exception has ended it
At(nb, c) == notebook = nb /\ pc = c /\ err = "none"

\* cell c ran to its end: control moves to the next cell
Completes(c) ==
    /\ pc' = NextCell(notebook, c)
    /\ err' = "none"
    /\ ran' = Append(ran, c)
    /\ notebook' = notebook

\* cell c raised: the run ends there
Raises(c) ==
    /\ pc' = pc
    /\ err' = c
    /\ ran' = Append(ran, c)
    /\ notebook' = notebook

\* ------------------------------------------------------------ notebook B: functions
\* coordinates of a cell in reference system crs are its WGS84 number moved
\* by the system's offset (a bijection of the plane, as a projection is)
Offset(crs) == IF crs = EPSG_UTM29 THEN 1 ELSE 0

Transform(geom, from, to) ==
    {(c + Offset(to) - Offset(from) + NumCells) % NumCells : c \in geom}

\* GeoDataFrame.to_crs(epsg=...): every geometry transformed, the table
\* tagged with the new reference (the caller has checked t.crs # NoCRS)
to_crs(t, epsg) ==
    [crs  |-> epsg,
     rows |-> [i \in DOMAIN t.rows |->
                 [t.rows[i] EXCEPT !.geometry = Transform(@, t.crs, epsg)]]]

\* predicate='intersects'
Intersects(g, h) == g \cap h # {}

\* the row that sjoin makes of ward i and county j
JoinedRow(W, C, i, j) ==
    [index       |-> i - 1,
     Population  |-> W[i].Population,
     geometry    |-> W[i].geometry,
     index_right |-> j - 1,
     CountyName  |-> C[j].CountyName]

RECURSIVE MatchesFrom(_, _, _, _)
MatchesFrom(W, C, i, j) ==
    IF j > Len(C) THEN <<>>
    ELSE (IF Intersects(W[i].geometry, C[j].geometry)
          THEN <<JoinedRow(W, C, i, j)>> ELSE <<>>)
         \o MatchesFrom(W, C, i, j + 1)

RECURSIVE SJoinFrom(_, _, _)
SJoinFrom(W, C, i) ==
    IF i > Len(W) THEN <<>>
    ELSE MatchesFrom(W, C, i, 1) \o SJoinFrom(W, C, i + 1)

\* sjoin with predicate='within': a ward is joined to the counties that
\* cover all of it
RECURSIVE WithinFrom(_, _, _, _)
WithinFrom(W, C, i, j) ==
    IF j > Len(C) THEN <<>>
    ELSE (IF W[i].geometry \subseteq C[j].geometry
          THEN <<JoinedRow(W, C, i, j)>> ELSE <<>>)
         \o WithinFrom(W, C, i, j + 1)

RECURSIVE SJoinWithinFrom(_, _, _)
SJoinWithinFrom(W, C, i) ==
    IF i > Len(W) THEN <<>>
    ELSE WithinFrom(W, C, i, 1) \o SJoinWithinFrom(W, C, i + 1)

sjoin_within(left, right) ==
    [crs |-> left.crs, rows |-> SJoinWithinFrom(left.rows, right.rows, 1)]

\* sjoin that keeps the first county found for each ward
RECURSIVE SJoinFirstFrom(_, _, _)
SJoinFirstFrom(W, C, i) ==
    IF i > Len(W) THEN <<>>
    ELSE (IF MatchesFrom(W, C, i, 1) = <<>> THEN <<>>
          ELSE <<Head(MatchesFrom(W, C, i, 1))>>)
         \o SJoinFirstFrom(W, C, i + 1)

sjoin_first_match(left, right) ==
    [crs |-> left.crs, rows |-> SJoinFirstFrom(left.rows, right.rows, 1)]

\* gpd.sjoin(left, right, how='inner', predicate='intersects'): one row per
\* intersecting pair, the left geometry and reference kept
sjoin(left, right) ==
    [crs |-> left.crs, rows |-> SJoinFrom(left.rows, right.rows, 1)]

RECURSIVE SumPopulation(_)
SumPopulation(rows) ==
    IF rows = <<>> THEN 0
    ELSE Head(rows).Population + SumPopulation(Tail(rows))

RowsOf(rows, name) == SelectSeq(rows, LAMBDA r : r.CountyName = name)

RECURSIVE SortedLabels(_)
SortedLabels(S) ==
    IF S = {} THEN <<>>
    ELSE LET n == CHOOSE x \in S : \A y \in S : NameRank(x) <= NameRank(y)
         IN  <<n>> \o SortedLabels(S \ {n})

\* groupby(...).first() in place of sum()
groupby_first(rows) ==
    LET labels == {rows[i].CountyName : i \in DOMAIN rows} \ {NaN}
        order  == SortedLabels(labels)
    IN  [k \in DOMAIN order |->
           [CountyName |-> order[k],
            Population |-> Head(RowsOf(rows, order[k])).Population]]

\* groupby('CountyName')['Population'].sum().reset_index(): the rows without
\* a label are left out (dropna), the groups come in ascending label order
groupby_sum(rows) ==
    LET labels == {rows[i].CountyName : i \in DOMAIN rows} \ {NaN}
        order  == SortedLabels(labels)
    IN  [k \in DOMAIN order |->
           [CountyName |-> order[k],
            Population |-> SumPopulation(RowsOf(rows, order[k]))]]

\* the label of the first row, whatever its value
idxmax_first_row(t) == CHOOSE i \in DOMAIN t : \A j \in DOMAIN t : i <= j

\* Series.idxmax(): the index label of the first occurrence of the maximum
idxmax(t) ==
    CHOOSE i \in DOMAIN t :
        /\ \A j \in DOMAIN t : t[j].Population <= t[i].Population
        /\ \A j \in DOMAIN t : j < i => t[j].Population # t[i].Population

\* the label of the last occurrence of the minimum
idxmin_last_occurrence(t) ==
    CHOOSE i \in DOMAIN t :
        /\ \A j \in DOMAIN t : t[j].Population >= t[i].Population
        /\ \A j \in DOMAIN t : j > i => t[j].Population # t[i].Population

\* Series.idxmin(): the index label of the first occurrence of the minimum
idxmin(t) ==
    CHOOSE i \in DOMAIN t :
        /\ \A j \in DOMAIN t : t[j].Population >= t[i].Population
        /\ \A j \in DOMAIN t : j < i => t[j].Population # t[i].Population

\* the text of a report line, kept as its parts
ReportLine(which, row) ==
    [text |-> which, county |-> row.CountyName, residents |-> row.Population]

\* ------------------------------------------------------------ notebook B: inputs
WardRowsB == [Population : Populations, geometry : SUBSET Cells \ {{}}]
CountyRows == [CountyName : CountyNames \cup {NaN},
               geometry : {{c} : c \in Cells}]
WardFilesB == [crs : FileCRS, rows : SeqsUpTo(WardRowsB, MaxWards)]
CountyFiles == [crs : FileCRS, rows : SeqsUpTo(CountyRows, MaxCounties)]

\* the files the notebook reads; any of them may be missing
FileNamesB == {"Counties.shp", "NI_Wards.shp"}

\* ------------------------------------------------------------ notebook B: cells
\* counties = gpd.read_file(...); wards = gpd.read_file(...)
ReadFiles ==
    /\ At("B", "read_files")
    /\ \E c \in CountyFiles, w \in WardFilesB, missing \in SUBSET FileNamesB :
         IF "Counties.shp" \in missing
         THEN /\ Raises("read_files")
              /\ UNCHANGED <<wards, counties>>
         ELSE IF "NI_Wards.shp" \in missing
         THEN /\ Raises("read_files")
              /\ counties' = c
              /\ UNCHANGED wards
         ELSE /\ Completes("read_files")
              /\ counties' = c
              /\ wards' = w
    /\ UNCHANGED <<wards_county, population_by_county, max_county,
                   min_county, stdout, ax, png>>
    /\ UNCHANGED varsA

\* the cell without its second line: the counties are left as they were read
ToCrs_wards_only ==
    /\ At("B", "to_crs")
    /\ IF wards.crs = NoCRS
       THEN /\ Raises("to_crs")
            /\ UNCHANGED <<wards, counties>>
       ELSE /\ Completes("to_crs")
            /\ wards' = to_crs(wards, EPSG_UTM29)
            /\ UNCHANGED counties
    /\ UNCHANGED <<wards_county, population_by_county, max_county,
                   min_county, stdout, ax, png>>
    /\ UNCHANGED varsA

\* wards = wards.to_crs(epsg=32629); counties = counties.to_crs(epsg=32629)
\* (to_crs raises on a table that has no reference system)
ToCrs ==
    /\ At("B", "to_crs")
    /\ IF wards.crs = NoCRS
       THEN /\ Raises("to_crs")
            /\ UNCHANGED <<wards, counties>>
       ELSE IF counties.crs = NoCRS
       THEN /\ Raises("to_crs")
            /\ wards' = to_crs(wards, EPSG_UTM29)
            /\ UNCHANGED counties
       ELSE /\ Completes("to_crs")
            /\ wards' = to_crs(wards, EPSG_UTM29)
            /\ counties' = to_crs(counties, EPSG_UTM29)
    /\ UNCHANGED <<wards_county, population_by_county, max_county,
                   min_county, stdout, ax, png>>
    /\ UNCHANGED varsA

\* wards_county = gpd.sjoin(wards, counties, how='inner', predicate='intersects')
SJoin ==
    /\ At("B", "sjoin")
    /\ Completes("sjoin")
    /\ wards_county' = sjoin(wards, counties)
    /\ UNCHANGED <<wards, counties, population_by_county, max_county,
                   min_county, stdout, ax, png>>
    /\ UNCHANGED varsA

\* population_by_county = wards_county.groupby(...)[...].sum().reset_index()
GroupBy ==
    /\ At("B", "groupby")
    /\ Completes("groupby")
    /\ population_by_county' = groupby_sum(wards_county.rows)
    /\ UNCHANGED <<wards, counties, wards_county, max_county, min_county,
                   stdout, ax, png>>
    /\ UNCHANGED varsA

\* max_county = population_by_county.loc[...idxmax()]; min_county likewise
\* (idxmax of an empty column raises)
IdxMaxMin ==
    /\ At("B", "idxmaxmin")
    /\ IF population_by_county = <<>>
       THEN /\ Raises("idxmaxmin")
            /\ UNCHANGED <<max_county, min_county>>
       ELSE /\ Completes("idxmaxmin")
            /\ max_county' = population_by_county[idxmax(population_by_county)]
            /\ min_county' = population_by_county[idxmin(population_by_county)]
    /\ UNCHANGED <<wards, counties, wards_county, population_by_county,
                   stdout, ax, png>>
    /\ UNCHANGED varsA

\* the two print calls of the report
PrintReport ==
    /\ At("B", "print_report")
    /\ Completes("print_report")
    /\ stdout' = stdout \o <<ReportLine("highest", max_county),
                             ReportLine("lowest", min_county)>>
    /\ UNCHANGED <<wards, counties, wards_county, population_by_county,
                   max_county, min_county, ax, png>>
    /\ UNCHANGED varsA

\* the cells that build the figure: axes, gridlines, colorbar axes, the ward
\* choropleth, the county outlines, the legend
Plot ==
    /\ At("B", "plot")
    /\ Completes("plot")
    /\ ax' = <<"gridlines", "wards:Population", "county_outlines", "legend">>
    /\ UNCHANGED <<wards, counties, wards_county, population_by_county,
                   max_county, min_county, stdout, png>>
    /\ UNCHANGED varsA

\* fig.savefig('population_map.png', dpi=300, bbox_inches='tight')
SaveFig ==
    /\ At("B", "savefig")
    /\ Completes("savefig")
    /\ png' = ax
    /\ UNCHANGED <<wards, counties, wards_county, population_by_county,
                   max_county, min_county, stdout, ax>>
    /\ UNCHANGED varsA

\* print("Map saved as population_map.png")
PrintSaved ==
    /\ At("B", "print_saved")
    /\ Completes("print_saved")
    /\ stdout' = Append(stdout, [text |-> "saved", county |-> NaN, residents |-> 0])
    /\ UNCHANGED <<wards, counties, wards_county, population_by_county,
                   max_county, min_county, ax, png>>
    /\ UNCHANGED varsA

NextB == ReadFiles \/ ToCrs \/ SJoin \/ GroupBy \/ IdxMaxMin \/ PrintReport
         \/ Plot \/ SaveFig \/ PrintSaved

\* ------------------------------------------------------------ notebook A: functions
\* no map yet (explore's default m=None)
NoMap == [tiles |-> "None", layers |-> <<>>]

\* explore that ignores m and always draws on a new map
explore_new_map(layer, m0) == [tiles |-> "OpenStreetMap", layers |-> <<layer>>]

\* GeoDataFrame.explore(column, m=..., ...): draws one layer; without m a new
\* folium.Map (with its base tiles) is made, with m the layer is added to it
explore(layer, m0) ==
    IF m0.tiles = "None"
    THEN [tiles |-> "OpenStreetMap", layers |-> <<layer>>]
    ELSE [m0 EXCEPT !.layers = Append(@, layer)]

\* the layer explore draws for a table: its column, its style, its features
Layer(column, style, rows) ==
    [column |-> column, style |-> style, features |-> Len(rows)]

\* a float64: a number or NaN
Float(v) == [nan |-> FALSE, val |-> v]
FloatNaN == [nan |-> TRUE, val |-> 0]

\* the float64 a csv cell is read as (the caller has ruled out text)
ToFloat(cell) == IF cell.kind = "empty" THEN FloatNaN ELSE Float(cell.val)

\* shapely Point(x, y)
Point(x, y) == [x |-> x, y |-> y]

\* points_from_xy with the two columns taken the other way round
points_from_yx(x, y) == [i \in DOMAIN x |-> Point(ToFloat(y[i]), ToFloat(x[i]))]

\* gpd.points_from_xy(x, y): one point per row, x from the first column and
\* y from the second, each as float64
points_from_xy(x, y) == [i \in DOMAIN x |-> Point(ToFloat(x[i]), ToFloat(y[i]))]

Column(rows, c) == [i \in DOMAIN rows |-> rows[i][c]]

\* gpd.GeoDataFrame(df[['name', 'website']], geometry=..., crs='epsg:4326')
GeoDataFrame(rows, geometry, crs) ==
    [crs  |-> crs,
     rows |-> [i \in DOMAIN rows |->
                 [name     |-> rows[i].name,
                  website  |-> rows[i].website,
                  geometry |-> geometry[i]]]]

\* the row merge makes of a left row and a right row with the same key
MergedRow(l, r) ==
    [WardCode |-> l.WardCode, Population |-> l.Population,
     Distance |-> r.Distance]

RECURSIVE MergeMatches(_, _)
MergeMatches(l, right) ==
    IF right = <<>> THEN <<>>
    ELSE (IF Head(right).WardCode = l.WardCode
          THEN <<MergedRow(l, Head(right))>> ELSE <<>>)
         \o MergeMatches(l, Tail(right))

RECURSIVE MergeRows(_, _)
MergeRows(left, right) ==
    IF left = <<>> THEN <<>>
    ELSE MergeMatches(Head(left), right) \o MergeRows(Tail(left), right)

\* merge with how='left': a left row without a match is kept
RECURSIVE MergeRowsLeft(_, _)
MergeRowsLeft(left, right) ==
    IF left = <<>> THEN <<>>
    ELSE (IF MergeMatches(Head(left), right) = <<>>
          THEN <<MergedRow(Head(left), [Distance |-> 0])>>
          ELSE MergeMatches(Head(left), right))
         \o MergeRowsLeft(Tail(left), right)

merge_how_left(left, right) ==
    [crs |-> left.crs, rows |-> MergeRowsLeft(left.rows, right.rows)]

\* merge that keeps one row for each key of the left table
RECURSIVE MergeRowsFirst(_, _, _)
MergeRowsFirst(left, right, seen) ==
    IF left = <<>> THEN <<>>
    ELSE (IF Head(left).WardCode \in seen THEN <<>>
          ELSE MergeMatches(Head(left), right))
         \o MergeRowsFirst(Tail(left), right, seen \cup {Head(left).WardCode})

merge_unique_left(left, right) ==
    [crs |-> left.crs, rows |-> MergeRowsFirst(left.rows, right.rows, {})]

\* wards.merge(transport, left_on='Ward Code', right_on='Ward Code'):
\* how='inner' (the default), rows in the order of the left keys
merge(left, right) ==
    [crs |-> left.crs, rows |-> MergeRows(left.rows, right.rows)]

\* folium.Map.save: the document holds the map's elements in the order
\* they were added
Render(m0) == <<m0.tiles>> \o m0.layers

\* ------------------------------------------------------------ notebook A: inputs
WardRowsA == [WardCode : WardCodes, Population : Populations]
WardFilesA == [crs : {EPSG_WGS84}, rows : SeqsUpTo(WardRowsA, MaxWards)]
AirportRows == [name : AirportNames, website : {"url"},
                lon : Lons \cup {EmptyCell, BadCoord}, lat : Lats]
AirportFiles == SeqsUpTo(AirportRows, MaxAirports)
KeyedTransport ==
    [columns : {{"Ward Code", "Distance"}},
     rows : SeqsUpTo([WardCode : WardCodes, Distance : Distances], MaxTransport)]
\* transport_data.csv without its 'Ward Code' column
KeylessTransport ==
    [columns : {{"Distance"}},
     rows : SeqsUpTo([WardCode : {NaN}, Distance : Distances], MaxTransport)]
TransportFiles == KeyedTransport \cup KeylessTransport

\* ------------------------------------------------------------ notebook A: cells
\* wards = gpd.read_file('data_files/NI_Wards.shp')
ReadWards ==
    /\ At("A", "read_wards")
    /\ \E w \in WardFilesA, missing \in BOOLEAN :
         IF missing
         THEN Raises("read_wards") /\ UNCHANGED wards
         ELSE Completes("read_wards") /\ wards' = w
    /\ UNCHANGED varsA
    /\ UNCHANGED varsB

\* m = wards.explore('Population', cmap='viridis')
ExplorePopulation ==
    /\ At("A", "explore_population")
    /\ Completes("explore_population")
    /\ m' = explore(Layer("Population", "viridis", wards.rows), NoMap)
    /\ UNCHANGED <<wards, df, airports, transport, merged, html>>
    /\ UNCHANGED varsB

\* df = pd.read_csv('data_files/Airports.csv'); airports = gpd.GeoDataFrame(...)
\* (a coordinate that is not a number makes points_from_xy raise)
BuildAirports ==
    /\ At("A", "build_airports")
    /\ \E f \in AirportFiles, missing \in BOOLEAN :
         IF missing
         THEN /\ Raises("build_airports")
              /\ UNCHANGED <<df, airports>>
         ELSE IF \E i \in DOMAIN f : f[i].lon = BadCoord
         THEN /\ Raises("build_airports")
              /\ df' = f
              /\ UNCHANGED airports
         ELSE /\ Completes("build_airports")
              /\ df' = f
              /\ airports' = GeoDataFrame(f,
                                 points_from_xy(Column(f, "lon"), Column(f, "lat")),
                                 EPSG_WGS84)
    /\ UNCHANGED <<wards, transport, merged, m, html>>
    /\ UNCHANGED varsB

\* airports.explore('name', m=m, marker_type='marker', popup=True, legend=False)
ExploreAirports ==
    /\ At("A", "explore_airports")
    /\ Completes("explore_airports")
    /\ m' = explore(Layer("name", "marker", airports.rows), m)
    /\ UNCHANGED <<wards, df, airports, transport, merged, html>>
    /\ UNCHANGED varsB

\* transport = pd.read_csv('data_files/transport_data.csv')
ReadTransport ==
    /\ At("A", "read_transport")
    /\ \E t \in TransportFiles, missing \in BOOLEAN :
         IF missing
         THEN Raises("read_transport") /\ UNCHANGED transport
         ELSE Completes("read_transport") /\ transport' = t
    /\ UNCHANGED <<wards, df, airports, merged, m, html>>
    /\ UNCHANGED varsB

\* merged = wards.merge(transport, left_on='Ward Code', right_on='Ward Code')
\* (a key column that is not in the table makes merge raise)
Merge ==
    /\ At("A", "merge")
    /\ IF "Ward Code" \notin transport.columns
       THEN Raises("merge") /\ UNCHANGED merged
       ELSE Completes("merge") /\ merged' = merge(wards, transport)
    /\ UNCHANGED <<wards, df, airports, transport, m, html>>
    /\ UNCHANGED varsB

\* m = merged.explore('Distance', cmap='plasma', ...);
\* airports.explore('name', **airport_args) with airport_args['m'] = m
ExploreDistance ==
    /\ At("A", "explore_distance")
    /\ Completes("explore_distance")
    /\ m' = explore(Layer("name", "plane", airports.rows),
                    explore(Layer("Distance", "plasma", merged.rows), NoMap))
    /\ UNCHANGED <<wards, df, airports, transport, merged, html>>
    /\ UNCHANGED varsB

\* m.save('NI_Transport.html')
Save ==
    /\ At("A", "save")
    /\ Completes("save")
    /\ html' = Render(m)
    /\ UNCHANGED <<wards, df, airports, transport, merged, m>>
    /\ UNCHANGED varsB

NextA == ReadWards \/ ExplorePopulation \/ BuildAirports \/ ExploreAirports
         \/ ReadTransport \/ Merge \/ ExploreDistance \/ Save

\* ------------------------------------------------------------ specification
Init ==
    /\ notebook \in {"A", "B"}
    /\ pc = CellsOf(notebook)[1]
    /\ err = "none"
    /\ ran = <<>>
    /\ wards = Unset
    /\ counties = Unset
    /\ wards_county = Unset
    /\ population_by_county = Unset
    /\ max_county = Unset
    /\ min_county = Unset
    /\ stdout = <<>>
    /\ ax = <<>>
    /\ png = NoFile
    /\ df = Unset
    /\ airports = Unset
    /\ transport = Unset
    /\ merged = Unset
    /\ m = NoMap
    /\ html = NoFile

Next == NextA \/ NextB

Spec == Init /\ [][Next]_vars

\* ------------------------------------------------------------ properties
\* cell c has run to its end
Ran(c) == (\E i \in DOMAIN ran : ran[i] = c) /\ err # c

\* the sum of f over the index set I, one index at a time
RECURSIVE Total(_, _)
Total(f, I) ==
    IF I = {} THEN 0
    ELSE LET i == CHOOSE x \in I : TRUE IN f[i] + Total(f, I \ {i})

WardKeys(rows) == {rows[i].WardCode : i \in DOMAIN rows}
WithKey(rows, k) == {i \in DOMAIN rows : rows[i].WardCode = k}
SharedKeys == WardKeys(wards.rows) \cap WardKeys(transport.rows)
\* the number of (left row, right row) pairs with equal keys
MatchingPairs ==
    Cardinality({p \in (DOMAIN wards.rows) \X (DOMAIN transport.rows) :
                   wards.rows[p[1]].WardCode = transport.rows[p[2]].WardCode})

\* C1 as stated: tables that share N keys merge into exactly N rows, and the
\* keys found in one table only are not in the result.
C1_NRowsForNSharedKeys ==
    Ran("merge") =>
        /\ Len(merged.rows) = Cardinality(SharedKeys)
        /\ WardKeys(merged.rows) = SharedKeys

\* C1 amended: the merged table has one row for each pair of a left and a
\* right row with equal keys (so N rows for N shared keys when no shared key
\* is repeated in either table), and the keys found in one table only are
\* not in the result.
C1_InnerJoinCardinality ==
    Ran("merge") =>
        /\ Len(merged.rows) = MatchingPairs
        /\ WardKeys(merged.rows) = SharedKeys
        /\ (\A k \in SharedKeys :
              Cardinality(WithKey(wards.rows, k)) = 1
              /\ Cardinality(WithKey(transport.rows, k)) = 1)
           => Len(merged.rows) = Cardinality(SharedKeys)

\* a merge of a left table that repeats its one shared key with a right
\* table that has a key of its own
C1_Witness ==
    /\ Ran("merge")
    /\ Cardinality(SharedKeys) = 1
    /\ Len(merged.rows) = 2
    /\ WardKeys(transport.rows) \ WardKeys(wards.rows) # {}

\* C2: a key held by k left rows and exactly one right row gives exactly k
\* merged rows, in the left order, each with its own left attributes and the
\* right row's Distance.
C2_RepeatedLeftKey ==
    Ran("merge") =>
        \A k \in WardCodes :
            Cardinality(WithKey(transport.rows, k)) = 1 =>
                LET L == SelectSeq(wards.rows, LAMBDA r : r.WardCode = k)
                    M == SelectSeq(merged.rows, LAMBDA r : r.WardCode = k)
                    r == transport.rows[CHOOSE j \in WithKey(transport.rows, k) : TRUE]
                IN  /\ Len(M) = Len(L)
                    /\ \A i \in DOMAIN M :
                          /\ M[i].Population = L[i].Population
                          /\ M[i].Distance = r.Distance

\* two left rows "W1" with different populations, one right row "W1"
C2_Witness ==
    /\ Ran("merge")
    /\ Len(wards.rows) = 2
    /\ wards.rows[1].WardCode = "W1" /\ wards.rows[2].WardCode = "W1"
    /\ wards.rows[1].Population # wards.rows[2].Population
    /\ Cardinality(WithKey(transport.rows, "W1")) = 1
    /\ Len(merged.rows) = 2
    /\ merged.rows[1].Distance = 23 /\ merged.rows[2].Distance = 23

\* the (ward, county) pairs whose geometries intersect, as row positions
IntersectingPairs ==
    {p \in (DOMAIN wards.rows) \X (DOMAIN counties.rows) :
        wards.rows[p[1]].geometry \cap counties.rows[p[2]].geometry # {}}
CountiesOf(i) == {j \in DOMAIN counties.rows : <<i, j>> \in IntersectingPairs}
JoinedLabels ==
    {wards_county.rows[i].CountyName : i \in DOMAIN wards_county.rows} \ {NaN}
Populations_of(rows) == [i \in DOMAIN rows |-> rows[i].Population]
GroupTotal == Total(Populations_of(population_by_county),
                    DOMAIN population_by_county)

\* C3: population_by_county has exactly one row for each county label of
\* the joined table, and the row's value is the sum of Population over the
\* joined rows with that label.
C3_GroupSums ==
    Ran("groupby") =>
        /\ {population_by_county[k].CountyName : k \in DOMAIN population_by_county}
             = JoinedLabels
        /\ Len(population_by_county) = Cardinality(JoinedLabels)
        /\ \A k \in DOMAIN population_by_county :
              population_by_county[k].Population =
                 Total(Populations_of(wards_county.rows),
                       {i \in DOMAIN wards_county.rows :
                          wards_county.rows[i].CountyName
                             = population_by_county[k].CountyName})

\* joined rows of 500 and 1500 with one label give the single group of 2000
C3_Witness ==
    /\ Ran("groupby")
    /\ Len(wards_county.rows) = 2
    /\ wards_county.rows[1].Population = 500
    /\ wards_county.rows[2].Population = 1500
    /\ wards_county.rows[1].CountyName = "Antrim"
    /\ wards_county.rows[2].CountyName = "Antrim"
    /\ population_by_county = <<[CountyName |-> "Antrim", Population |-> 2000]>>

\* C4 as stated: when no ward intersects more than one county, the county
\* sums add up to the sum of Population over the wards table.
C4_TotalConservedAtMostOne ==
    (Ran("groupby") /\ \A i \in DOMAIN wards.rows : Cardinality(CountiesOf(i)) <= 1)
        => GroupTotal = Total(Populations_of(wards.rows), DOMAIN wards.rows)

\* C4 amended: when every ward intersects exactly one county and that county
\* has a label, the county sums add up to the sum of Population over the
\* wards table.
C4_TotalConservedExactlyOne ==
    (/\ Ran("groupby")
     /\ \A i \in DOMAIN wards.rows :
           /\ Cardinality(CountiesOf(i)) = 1
           /\ \A j \in CountiesOf(i) : counties.rows[j].CountyName # NaN)
        => GroupTotal = Total(Populations_of(wards.rows), DOMAIN wards.rows)

\* two wards of 500 and 1500, each in exactly one county, one of the wards
\* reaching beyond its county
C4_Witness ==
    /\ Ran("groupby")
    /\ Len(wards.rows) = 2
    /\ \A i \in DOMAIN wards.rows :
          /\ Cardinality(CountiesOf(i)) = 1
          /\ \A j \in CountiesOf(i) : counties.rows[j].CountyName # NaN
    /\ \E i \in DOMAIN wards.rows : wards.rows[i].geometry = Cells
    /\ wards.rows[1].Population # wards.rows[2].Population
    /\ GroupTotal = 2000

C6_MinMaxReport ==
    Ran("print_report") =>
        /\ stdout[1].text = "highest" /\ stdout[2].text = "lowest"
        /\ \A l \in 1..2 :
              \E k \in DOMAIN population_by_county :
                  /\ population_by_county[k].CountyName = stdout[l].county
                  /\ population_by_county[k].Population = stdout[l].residents
        /\ \A k \in DOMAIN population_by_county :
              /\ population_by_county[k].Population <= stdout[1].residents
              /\ population_by_county[k].Population >= stdout[2].residents

\* two groups with different sums, the larger one second
C6_Witness ==
    /\ Ran("print_report")
    /\ Len(population_by_county) = 2
    /\ population_by_county[1].Population < population_by_county[2].Population
    /\ stdout[1].county = "Down"
    /\ stdout[2].county = "Antrim"

\* C7: airports has one row for each row of df, in the same order, tagged
\* WGS84, and the point of a row whose lon and lat are numbers has exactly
\* x = lon and y = lat.
C7_PointsFromLonLat ==
    Ran("build_airports") =>
        /\ airports.crs = EPSG_WGS84
        /\ Len(airports.rows) = Len(df)
        /\ \A i \in DOMAIN df :
              /\ airports.rows[i].name = df[i].name
              /\ (df[i].lon.kind = "number" /\ df[i].lat.kind = "number") =>
                    /\ airports.rows[i].geometry.x = [nan |-> FALSE, val |-> df[i].lon.val]
                    /\ airports.rows[i].geometry.y = [nan |-> FALSE, val |-> df[i].lat.val]

\* two rows, the first with lon -6 and lat 54, the second without a lon
C7_Witness ==
    /\ Ran("build_airports")
    /\ Len(df) = 2
    /\ df[1].lon = Num(-6) /\ df[1].lat = Num(54)
    /\ df[2].lon = EmptyCell
    /\ Len(airports.rows) = 2
    /\ airports.rows[1].geometry.x.val = -6
    /\ airports.rows[1].geometry.y.val = 54

\* C8: a cell that fails ends the run there: the cells that ran are those
\* up to the failing one, each once, control stays at the failing cell, and
\* neither NI_Transport.html nor population_map.png has been written.
C8_FailureIsFatal ==
    err # "none" =>
        /\ pc = err
        /\ ran = SubSeq(CellsOf(notebook), 1, Position(notebook, err))
        /\ html = NoFile
        /\ png = NoFile
        /\ ~ ENABLED Next

\* notebook A stopped by the missing 'Ward Code' column, after both maps
\* had been drawn in memory
C8_Witness ==
    /\ notebook = "A"
    /\ err = "merge"
    /\ "Ward Code" \notin transport.columns
    /\ Len(m.layers) = 2
    /\ html = NoFile

\* C9: when the spatial join runs, and from then on, wards and counties have
\* both been reprojected and both carry EPSG:32629, and so does the joined
\* table.
C9_SameCrsAtJoin ==
    /\ (At("B", "sjoin") \/ Ran("sjoin")) =>
          /\ Ran("to_crs")
          /\ wards.crs = EPSG_UTM29
          /\ counties.crs = EPSG_UTM29
    /\ Ran("sjoin") => wards_county.crs = EPSG_UTM29

\* the join has run on two tables with rows and has found a pair
C9_Witness ==
    /\ Ran("sjoin")
    /\ wards.rows # <<>> /\ counties.rows # <<>>
    /\ wards_county.rows # <<>>
    /\ wards.crs = EPSG_UTM29 /\ counties.crs = EPSG_UTM29

LayerColumns(layers) == [i \in DOMAIN layers |-> layers[i].column]

\* C10: drawing on an existing map adds the layer after the ones already
\* there: the first map holds the Population layer and then the markers, the
\* second map holds the Distance layer and then the markers, and the saved
\* document holds the second map's layers in that order.
C10_LayersInCallOrder ==
    /\ (Ran("explore_airports") /\ ~ Ran("explore_distance")) =>
          /\ LayerColumns(m.layers) = <<"Population", "name">>
          /\ m.layers[1].features = Len(wards.rows)
          /\ m.layers[2].features = Len(airports.rows)
    /\ Ran("explore_distance") =>
          /\ LayerColumns(m.layers) = <<"Distance", "name">>
          /\ m.layers[1].features = Len(merged.rows)
          /\ m.layers[2].features = Len(airports.rows)
          /\ m.layers[2].style = "plane"
    /\ Ran("save") =>
          /\ Len(html) = 3
          /\ html[2] = m.layers[1] /\ html[2].column = "Distance"
          /\ html[3] = m.layers[2] /\ html[3].column = "name"

\* the saved document with a Distance layer of two wards under one airport
C10_Witness ==
    /\ Ran("save")
    /\ Len(html) = 3
    /\ html[2].column = "Distance" /\ html[2].features = 2
    /\ html[3].column = "name" /\ html[3].features = 1

\* the components called by a sequence of cells, in order
RECURSIVE StagesOf(_)
StagesOf(cells) ==
    IF cells = <<>> THEN <<>>
    ELSE StagesOfCell(Head(cells)) \o StagesOf(Tail(cells))

\* a sequence with each run of equal neighbours reduced to one element
RECURSIVE Collapse(_)
Collapse(q) ==
    IF Len(q) <= 1 THEN q
    ELSE IF q[1] = q[2] THEN Collapse(Tail(q))
    ELSE <<q[1]>> \o Collapse(Tail(q))

IsPrefix(p, q) == Len(p) <= Len(q) /\ p = SubSeq(q, 1, Len(p))

\* the stage orders the claim names
ClaimedStagesA == <<"load", "build geometry", "attribute join", "render", "export">>
ClaimedStagesB == <<"load", "reproject", "spatial join", "aggregate",
                    "min/max report", "render", "save">>
\* the components notebook A calls, cell by cell
StageOrderA == <<"load", "render", "load", "build geometry", "render", "load",
                 "attribute join", "render", "export">>

\* the output file of the notebook that runs
OutputWritten == IF notebook = "A" THEN html # NoFile ELSE png # NoFile

\* the cells run so far are the first cells of the notebook, each once and in
\* document order, and control is at the cell after them
CellsOnceInOrder ==
    /\ IsPrefix(ran, CellsOf(notebook))
    /\ pc = IF Len(ran) = Len(CellsOf(notebook)) THEN "done"
            ELSE CellsOf(notebook)[Len(ran) + 1]

\* the file is written only once every layer is drawn, and holds them all
WrittenAfterLayers ==
    /\ html # NoFile =>
          /\ Ran("explore_distance")
          /\ Len(m.layers) = 2
          /\ Len(html) = 1 + Len(m.layers)
    /\ png # NoFile =>
          /\ Ran("plot")
          /\ png = <<"gridlines", "wards:Population", "county_outlines", "legend">>

\* the run goes on until its last cell has run, and then stops with the file
\* written
RunsToTheEnd ==
    /\ pc # "done" => ENABLED Next
    /\ pc = "done" =>
          /\ ran = CellsOf(notebook)
          /\ OutputWritten
          /\ ~ ENABLED Next

\* C11 as stated: in a run without a failure each pipeline goes through its
\* stages once each in the order named (B: load, reproject, spatial join,
\* aggregate, min/max report, render, save; A: load, build geometry,
\* attribute join, render, export), never back to an earlier one, writes its
\* file after its layers are drawn, and terminates.
C11_StagesOnceInNamedOrder ==
    err = "none" =>
        /\ IsPrefix(Collapse(StagesOf(ran)),
                    IF notebook = "A" THEN ClaimedStagesA ELSE ClaimedStagesB)
        /\ CellsOnceInOrder
        /\ WrittenAfterLayers
        /\ RunsToTheEnd

\* C11 amended: in a run without a failure each notebook runs each of its
\* cells exactly once in document order and never goes back, writes its file
\* only after all its layers are drawn, and then terminates.  For pipeline B
\* that is each stage once, in the order load, reproject, spatial join,
\* aggregate, min/max report, render, save.  Pipeline A loads and renders
\* three times each: load, render, load, build geometry, render, load,
\* attribute join, render, export.
C11_CellsOnceInDocumentOrder ==
    err = "none" =>
        /\ CellsOnceInOrder
        /\ notebook = "B" => IsPrefix(Collapse(StagesOf(ran)), ClaimedStagesB)
        /\ notebook = "A" => IsPrefix(StagesOf(ran), StageOrderA)
        /\ WrittenAfterLayers
        /\ RunsToTheEnd

\* notebook A at its end: every cell has run once, the renderer three times,
\* and the document holds the two layers of the second map
C11_Witness ==
    /\ notebook = "A"
    /\ err = "none"
    /\ pc = "done"
    /\ ran = CellsA
    /\ StagesOf(ran) = StageOrderA
    /\ Len(html) = 3

\* C12: the groups of population_by_county are in ascending order of county
\* label, and among the counties that share the maximum (the minimum) sum
\* the one reported is the first in that order.
C12_TieBreakFirstLabel ==
    /\ Ran("groupby") =>
          \A j, k \in DOMAIN population_by_county :
              j < k => NameRank(population_by_county[j].CountyName)
                         < NameRank(population_by_county[k].CountyName)
    /\ Ran("idxmaxmin") =>
          \A k \in DOMAIN population_by_county :
              /\ population_by_county[k].Population <= max_county.Population
              /\ population_by_county[k].Population >= min_county.Population
              /\ population_by_county[k].Population = max_county.Population
                    => NameRank(max_county.CountyName)
                         <= NameRank(population_by_county[k].CountyName)
              /\ population_by_county[k].Population = min_county.Population
                    => NameRank(min_county.CountyName)
                         <= NameRank(population_by_county[k].CountyName)
    /\ Ran("print_report") =>
          /\ stdout[1].county = max_county.CountyName
          /\ stdout[2].county = min_county.CountyName

\* Antrim and Down with the same sum: Antrim is printed as highest and as
\* lowest
C12_Witness ==
    /\ Ran("print_report")
    /\ Len(population_by_county) = 2
    /\ population_by_county[1].Population = population_by_county[2].Population
    /\ population_by_county[1].CountyName = "Antrim"
    /\ stdout[1].county = "Antrim"
    /\ stdout[2].county = "Antrim"

====
